---- MODULE Spec2Model ----
(***************************************************************************)
(* State-machine model of PhotoScheduler (photo_rotation_scheduler.py):    *)
(* the rotation engine (switch / clear workers, select_photos), the two    *)
(* persisted records (viewed_photos.json, photo_dates.json), the           *)
(* single-flight lock, the cancellation event and on_closing.              *)
(*                                                                         *)
(* A photo file is identified by its filename; filenames are the integers  *)
(* 1..NumFiles and the order of pathlib paths is the order of integers.    *)
(* A directory is the set of photo filenames it holds.  The coordinating   *)
(* (Tk main-loop) thread runs each of its handlers to completion; a        *)
(* worker thread advances one checkpoint or one file operation at a time.  *)
(*                                                                         *)
(* The schedule (get_switch_times, the 60 s periodic_update timer) is      *)
(* modelled over a clock of whole seconds; a datetime is a record of day,  *)
(* second of the day and microsecond.  Spec keeps the clock still: the     *)
(* scheduled request is one of the requests it allows at any time.         *)
(***************************************************************************)
EXTENDS Integers, Sequences, FiniteSets, TLC

\* ---------------------------------------------------------------- bounds
NumFiles == 3
MaxCount == 2
MaxDate == 2
MaxThreads == 2
MaxFaults == 1
MaxDelay == 1          \* seconds the timer callback may run late
ClockSpan == 200       \* seconds of clock time the timer is followed for
MaxTyped == 15         \* largest switch count typed, besides the limit's

\* ------------------------------------------------------ program constants
MaxPhotoCount == 10000
ScanFlushInterval == 5000
MaxSwitches == 100
HoursPerDay == 24
TickSeconds == 60

Files == 1..NumFiles
Dates == 1..MaxDate
Threads == 1..MaxThreads
Modes == {"Random", "Newest", "Oldest"}

VARIABLES
    lib,                 \* photo filenames in the library directory
    gal,                 \* photo filenames in the gallery directory
    libExists,           \* library_path.exists()
    galExists,           \* gallery_path.exists()
    samePath,            \* library.resolve() == gallery.resolve()
    fileDate,            \* what _calculate_photo_date resolves for each file
    selection_mode,      \* self.selection_mode
    viewed_photos,       \* self.viewed_photos
    viewedFile,          \* content of LOG_FILE
    moved_in,            \* history variable: the filenames a switch moved into
                         \* the gallery, less those reset or deleted there as
                         \* duplicates since
    date_cache,          \* self.date_cache, as its set of (filename, date) items
    cache_dirty,         \* self.cache_dirty
    cacheFile,           \* content of CACHE_FILE
    operation_lock,      \* self.operation_lock.locked()
    operation_cancelled, \* self.operation_cancelled.is_set()
    current_thread,      \* self.current_thread (0 is None)
    thr,                 \* the worker threads: position and locals
    gui,                 \* position of the coordinating thread
    status,              \* self.status
    alert,               \* the warning logged / dialog raised by the last step
    moveFails,           \* per-file rename/unlink failures so far
    ioFails,             \* failed writes of a persisted record so far
    main_time,           \* self.main_time: the text of the base-time entry
    switches_per_day,    \* self.switches_per_day: the text of its entry
    now,                 \* datetime.now()
    timer,               \* when the root.after(60000, ...) callback is due
    last_tick,           \* when periodic_update ran last
    tick_request,        \* the last periodic_update called switch_photos_async
    next_switch          \* self.next_switch

fsVars == <<lib, gal, libExists, galExists, samePath, fileDate>>
cfgVars == <<selection_mode>>
histVars == <<viewed_photos, viewedFile, moved_in>>
cacheVars == <<date_cache, cache_dirty, cacheFile>>
opVars == <<operation_lock, operation_cancelled, current_thread, thr>>
uiVars == <<gui, status>>
outVars == <<alert>>
faultVars == <<moveFails, ioFails>>
schedVars == <<main_time, switches_per_day, now, timer, last_tick, tick_request,
               next_switch>>
vars == <<fsVars, cfgVars, histVars, cacheVars, opVars, uiVars, outVars, faultVars,
          schedVars>>

\* ---------------------------------------------------------------- helpers
Min(S) == CHOOSE x \in S : \A y \in S : x <= y
Max(S) == CHOOSE x \in S : \A y \in S : y <= x

RECURSIVE SortedSeq(_)
\* the elements of a set of integers, ascending
SortedSeq(S) == IF S = {} THEN <<>> ELSE <<Min(S)>> \o SortedSeq(S \ {Min(S)})

Range(s) == {s[i] : i \in 1..Len(s)}

\* F applied to the value of v (v is evaluated once)
Bind(v, F(_)) == CHOOSE r \in {F(x) : x \in {v}} : TRUE

\* ------------------------------------------------- persisted records (JSON)
\* A file is missing, holds text json.load rejects, or holds a JSON list, a
\* JSON object (its items in order) or a JSON number.
MissingFile == [kind |-> "missing", data |-> <<>>]
CorruptFile == [kind |-> "corrupt", data |-> <<>>]
NumberFile == [kind |-> "number", data |-> <<1>>]

\* json.dump(list(self.viewed_photos), f)
DumpViewed(viewed) == [kind |-> "list", data |-> SortedSeq(viewed)]

\* load_viewed_photos: set(data) if the payload is a list, else set()
load_viewed_photos(file) ==
    IF file.kind = "list" THEN Range(file.data) ELSE {}

CacheKeys(cache) == {p[1] : p \in cache}
CacheGet(cache, name) == (CHOOSE p \in cache : p[1] = name)[2]

\* json.dump(self.date_cache, f): the items of the dict, one after the other
DumpCache(cache) ==
    [kind |-> "dict",
     data |-> [i \in 1..Cardinality(CacheKeys(cache)) |->
                  <<SortedSeq(CacheKeys(cache))[i],
                    CacheGet(cache, SortedSeq(CacheKeys(cache))[i])>>]]

\* json.load of an object: a later item replaces an earlier one with its key
ParseObject(items) ==
    {items[i] : i \in {j \in 1..Len(items) :
                          \A k \in (j+1)..Len(items) : items[k][1] # items[j][1]}}

\* json.load of a file that parses: the Python value and its type
json_load(file) ==
    CASE file.kind = "dict" -> [type |-> "dict", value |-> ParseObject(file.data)]
      [] file.kind = "list" -> [type |-> "list", value |-> file.data]
      [] file.kind = "number" -> [type |-> "int", value |-> file.data[1]]

\* what load_date_cache returns, with its type: whatever json.load returns,
\* {} when the file is missing or json.load raises
load_date_cache_result(file) ==
    IF file.kind \in {"missing", "corrupt"}
    THEN [type |-> "dict", value |-> {}]
    ELSE json_load(file)

load_date_cache(file) == load_date_cache_result(file).value

\* the outcomes of writing `content` to a record: written, or the write
\* raises and leaves the old content or a truncated file
WriteOutcomes(old, content) ==
    {[file |-> content, ok |-> TRUE]}
    \cup (IF moveFails + ioFails < MaxFaults
          THEN {[file |-> old, ok |-> FALSE], [file |-> CorruptFile, ok |-> FALSE]}
          ELSE {})

Fails(o) == IF o.ok THEN 0 ELSE 1

\* ------------------------------------------------------------- date cache
\* mutant: the date is resolved again (and cached) at every call
get_photo_date_resolved(cache, dirty, name) ==
    [date |-> fileDate[name],
     cache |-> {p \in cache : p[1] # name} \cup {<<name, fileDate[name]>>},
     dirty |-> TRUE]

\* get_photo_date: the cached date when the filename is cached, else the
\* resolved date, which is cached and marks the cache dirty
get_photo_date(cache, dirty, name) ==
    IF name \in CacheKeys(cache)
    THEN [date |-> CacheGet(cache, name), cache |-> cache, dirty |-> dirty]
    ELSE [date |-> fileDate[name],
          cache |-> cache \cup {<<name, fileDate[name]>>},
          dirty |-> TRUE]

\* save_date_cache: nothing when not dirty; else the mapping is written and
\* the dirty flag cleared, or the write raises and the flag stays set
save_date_cache(cache, dirty, file) ==
    IF ~dirty
    THEN {[file |-> file, dirty |-> FALSE, ok |-> TRUE]}
    ELSE {[file |-> o.file, dirty |-> ~o.ok, ok |-> o.ok] :
             o \in WriteOutcomes(file, DumpCache(cache))}

\* save_viewed_photos: the set is written as a list; an error is only logged
save_viewed_photos(viewed, file) == WriteOutcomes(file, DumpViewed(viewed))

\* ----------------------------------------------------------- configuration
\* self.photo_count is the text of an entry the user edits at any time: its
\* value at each read is an input.  int(text) raises ValueError for a text
\* that is no integer
CountTexts ==
    {[isInt |-> FALSE, val |-> 0]} \cup {[isInt |-> TRUE, val |-> v] : v \in 0..MaxCount}

\* count = max(1, min(count, 10000))
ClampCount(count) ==
    IF count > MaxPhotoCount THEN MaxPhotoCount ELSE IF count < 1 THEN 1 ELSE count

\* mutant: the paths are compared before they are resolved (never equal)
validate_paths_unresolved == TRUE

\* validate_paths raises ValueError when both paths resolve to the same path
validate_paths == ~samePath

\* ------------------------------------------------------------ bounded top-K
\* order of (date, path) tuples
TupleLess(a, b) == a[1] < b[1] \/ (a[1] = b[1] /\ a[2] < b[2])

MinTuple(H) == CHOOSE a \in H : \A b \in H : a = b \/ TupleLess(a, b)
MaxTuple(H) == CHOOSE a \in H : \A b \in H : a = b \/ TupleLess(b, a)

\* mutant: the first n items are kept
nlargest_step_first(heap, n, item) ==
    IF Cardinality(heap) < n THEN heap \cup {item} ELSE heap

\* heapq.nlargest / heapq.nsmallest consuming one more item: the first n
\* items are kept, then an item replaces the least (greatest) kept one when
\* it is greater (less)
nlargest_step(heap, n, item) ==
    IF Cardinality(heap) < n THEN heap \cup {item}
    ELSE IF TupleLess(MinTuple(heap), item)
         THEN (heap \ {MinTuple(heap)}) \cup {item}
         ELSE heap

nsmallest_step(heap, n, item) ==
    IF Cardinality(heap) < n THEN heap \cup {item}
    ELSE IF TupleLess(item, MaxTuple(heap))
         THEN (heap \ {MaxTuple(heap)}) \cup {item}
         ELSE heap

heap_step(mode, heap, n, item) ==
    IF mode = "Newest" THEN nlargest_step(heap, n, item)
    ELSE nsmallest_step(heap, n, item)

RECURSIVE Descending(_)
Descending(H) ==
    IF H = {} THEN <<>> ELSE <<MaxTuple(H)[2]>> \o Descending(H \ {MaxTuple(H)})

RECURSIVE Ascending(_)
Ascending(H) ==
    IF H = {} THEN <<>> ELSE <<MinTuple(H)[2]>> \o Ascending(H \ {MinTuple(H)})

\* [photo for _, photo in heapq.nlargest(...)]: the kept items, greatest
\* first (nsmallest: least first)
heap_result(mode, heap) ==
    IF mode = "Newest" THEN Descending(heap) ELSE Ascending(heap)

\* random.sample(pool, k): any k distinct elements in any order
RandomSample(pool, k) ==
    {s \in [1..k -> pool] : \A i, j \in 1..k : i # j => s[i] # s[j]}

\* ----------------------------------------------------------- worker threads
IdleThread ==
    [pc |-> "idle", kind |-> "none", todo |-> {}, cur |-> 0,
     deleted_dupes |-> {}, moved_back |-> 0, count |-> 0, mode |-> "none",
     unviewed |-> {}, heap |-> {}, processed |-> 0, selected |-> <<>>,
     moved_to_gallery |-> 0, dupes0 |-> {}]

Alive(t) == thr[t].pc # "idle"

\* the Thread object a request creates: the first unused slot
NewThread == Min({t \in Threads : ~Alive(t)})

\* self.status.set(message); n is the count the message reports
StatusMsg(msg, n) == [msg |-> msg, n |-> n]

\* --------------------------------------------------------------- schedule
SecondsPerDay == HoursPerDay * 3600
Micros == 1000 * 1000

\* datetime values, and their order
DateTime(day, sec, us) == [day |-> day, sec |-> sec, us |-> us]
DtLess(a, b) ==
    \/ a.day < b.day
    \/ a.day = b.day /\ a.sec < b.sec
    \/ a.day = b.day /\ a.sec = b.sec /\ a.us < b.us

\* dt + timedelta(seconds=n)
PlusSeconds(dt, n) ==
    DateTime(dt.day + (dt.sec + n) \div SecondsPerDay,
             (dt.sec + n) % SecondsPerDay, dt.us)

\* dt.replace(second=0, microsecond=0)
MinuteOf(dt) == DateTime(dt.day, (dt.sec \div 60) * 60, 0)

\* dt.strftime("%H:%M"), as the minute of the day
ClockText(dt) == dt.sec \div 60

\* the text of the base-time entry: validate_time_format (strptime "%H:%M")
\* rejects it, or it reads as hour and minute
BadTime == [ok |-> FALSE, hour |-> 0, min |-> 0]
TimeOfDay(h, m) == [ok |-> TRUE, hour |-> h, min |-> m]
validate_time_format(text) == text.ok

\* a / n rounded to the nearest integer
RoundDiv(a, n) == (2 * a + n) \div (2 * n)

\* timedelta(hours=24/switches): a whole number of microseconds, the nearest
Interval(switches) ==
    [sec |-> SecondsPerDay \div switches,
     us |-> RoundDiv((SecondsPerDay % switches) * Micros, switches)]

\* main_datetime + (interval * i)
PlusInterval(dt, interval, i) ==
    LET us == dt.us + i * interval.us
        sec == dt.sec + i * interval.sec + us \div Micros
    IN DateTime(dt.day + sec \div SecondsPerDay, sec % SecondsPerDay, us % Micros)

\* sorted(times): the element of each rank (equal elements keep their order)
SortedTimes(times) ==
    Bind(times, LAMBDA ts :
       Bind([i \in 1..Len(ts) |->
               Cardinality({j \in 1..Len(ts) : \/ DtLess(ts[j], ts[i])
                                               \/ ts[j] = ts[i] /\ j <= i})],
            LAMBDA rank :
               [k \in 1..Len(ts) |-> ts[CHOOSE i \in 1..Len(ts) : rank[i] = k]]))

\* get_switch_times, for the texts of the two entries and the clock
get_switch_times(time, switches, clock) ==
    IF ~validate_time_format(time) THEN <<>>
    ELSE IF ~switches.isInt THEN <<>>
    ELSE IF switches.val <= 0 \/ switches.val > MaxSwitches THEN <<>>
    ELSE LET main_datetime ==
                 DateTime(clock.day, (time.hour * 60 + time.min) * 60, 0)
         IN IF switches.val = 1 THEN <<main_datetime>>
            ELSE LET interval == Interval(switches.val)
                     times == [k \in 1..switches.val |->
                                 PlusInterval(main_datetime, interval, k - 1)]
                 IN Bind(times, LAMBDA ts :
                       SortedTimes([k \in 1..Len(ts) |->
                                      [ts[k] EXCEPT !.day = clock.day]]))

\* update_next_switch: what self.next_switch is set to
NextSwitchText(time, switches, clock) ==
    Bind(get_switch_times(time, switches, clock), LAMBDA switch_times :
       IF switch_times = <<>> THEN [at |-> -1, tomorrow |-> FALSE]
       ELSE IF \E k \in 1..Len(switch_times) : DtLess(clock, switch_times[k])
       THEN [at |-> ClockText(switch_times[
                       CHOOSE k \in 1..Len(switch_times) :
                          /\ DtLess(clock, switch_times[k])
                          /\ \A j \in 1..(k - 1) : ~DtLess(clock, switch_times[j])]),
             tomorrow |-> FALSE]
       ELSE [at |-> ClockText(switch_times[1]), tomorrow |-> TRUE])

\* ------------------------------------------------------------------- Init
\* the directories at start: every file is in the library, in the gallery or
\* in both (a duplicate); or the library path does not exist; or both paths
\* resolve to one directory
InitFiles ==
    /\ selection_mode \in Modes
    /\ libExists \in BOOLEAN
    /\ samePath \in BOOLEAN
    /\ galExists \in BOOLEAN
    /\ lib \in SUBSET Files
    /\ gal \in SUBSET Files
    /\ IF ~libExists THEN lib = {} /\ gal = {} /\ ~galExists /\ ~samePath
       ELSE IF samePath THEN galExists /\ gal = lib /\ lib = Files
       ELSE IF ~galExists THEN gal = {} /\ lib = Files
       ELSE lib \cup gal = Files
    /\ selection_mode # "Random" => (libExists /\ ~samePath /\ galExists /\ gal = {})

\* the dates files resolve to matter (and vary) in the dated modes only
InitConfig ==
    /\ fileDate \in [Files -> Dates]
    /\ selection_mode = "Random" => \A f \in Files : fileDate[f] = 1

\* __init__: both records are loaded; the history record is absent, or
\* lists the gallery's photos or every photo; the cache record is absent or
\* holds one entry
InitFields ==
    /\ InitConfig
    /\ viewedFile \in {MissingFile, DumpViewed(gal), DumpViewed(Files)}
    /\ viewed_photos = load_viewed_photos(viewedFile)
    /\ moved_in = viewed_photos
    /\ cacheFile \in {MissingFile} \cup {DumpCache({<<1, d>>}) : d \in Dates}
    /\ selection_mode = "Random" => cacheFile.kind = "missing"
    /\ date_cache = load_date_cache(cacheFile)
    /\ cache_dirty = FALSE
    /\ operation_lock = FALSE
    /\ operation_cancelled = FALSE
    /\ current_thread = 0
    /\ thr = [t \in Threads |-> IdleThread]
    /\ gui = "idle"
    /\ status = StatusMsg("Ready", 0)
    /\ alert = "none"
    /\ moveFails = 0
    /\ ioFails = 0

InitProgram == InitFiles /\ InitFields

\* the timer and the display after __init__: update_next_switch, then
\* periodic_update has run once and armed its timer
InitTimer ==
    /\ timer = PlusSeconds(now, TickSeconds)
    /\ last_tick = now
    /\ tick_request = FALSE
    /\ next_switch = NextSwitchText(main_time, switches_per_day, now)

\* the schedule entries hold their defaults ("21:15", "1"); the clock stands
\* at noon
InitDefaultSchedule ==
    /\ main_time = TimeOfDay(21, 15)
    /\ switches_per_day = [isInt |-> TRUE, val |-> 1]
    /\ now = DateTime(0, 12 * 3600, 0)
    /\ InitTimer

Init == InitProgram /\ InitDefaultSchedule

\* ------------------------------------------------- coordinating thread (GUI)
Idle == gui = "idle"

\* a step that logs no warning and raises no dialog
Quiet == alert' = "none"

\* mutant: the request does not look at the lock
LockAcquired_ignored == TRUE

\* self.operation_lock.acquire(blocking=False)
LockAcquired == ~operation_lock

\* threading.Thread(target=worker).start(), after start_operation is queued
StartWorker(kind) ==
    /\ \E t \in Threads : ~Alive(t)
    /\ thr' = [thr EXCEPT ![NewThread] =
                  [IdleThread EXCEPT !.pc = "start", !.kind = kind]]
    /\ current_thread' = NewThread
    /\ operation_lock' = TRUE
    /\ status' = StatusMsg("Working...", 0)

\* mutant: the busy path releases the lock like the other early returns
RejectBusy_releases ==
    /\ alert' = "Operation already in progress"
    /\ operation_lock' = FALSE
    /\ UNCHANGED <<fsVars, cfgVars, histVars, cacheVars, operation_cancelled,
                   current_thread, thr, gui, status, faultVars>>

\* a request that found the lock busy: a warning is logged and nothing else
RejectBusy ==
    /\ alert' = "Operation already in progress"
    /\ UNCHANGED <<fsVars, cfgVars, histVars, cacheVars, opVars, gui, status, faultVars>>

\* a request refused for its configuration: the dialog, the lock released
RejectConfig(dialog) ==
    /\ alert' = dialog
    /\ operation_cancelled' = FALSE
    /\ operation_lock' = FALSE
    /\ UNCHANGED <<fsVars, cfgVars, histVars, cacheVars, current_thread, thr,
                   gui, status, faultVars>>

\* int(self.photo_count.get()) succeeded and the count is positive
CountAccepted(text) == text.isInt /\ text.val > 0

switch_photos_async ==
    /\ Idle
    /\ \E text \in CountTexts :
       IF ~LockAcquired THEN RejectBusy
       ELSE IF ~CountAccepted(text) THEN RejectConfig("Invalid Input")
       ELSE IF ~validate_paths THEN RejectConfig("Invalid Path")
       ELSE /\ operation_cancelled' = FALSE
            /\ StartWorker("switch")
            /\ Quiet
            /\ UNCHANGED <<fsVars, cfgVars, histVars, cacheVars, gui, faultVars>>

clear_gallery_async ==
    /\ Idle
    /\ IF ~LockAcquired THEN RejectBusy
       ELSE IF ~validate_paths THEN RejectConfig("Invalid Path")
       ELSE /\ operation_cancelled' = FALSE
            /\ StartWorker("clear")
            /\ Quiet
            /\ UNCHANGED <<fsVars, cfgVars, histVars, cacheVars, gui, faultVars>>
    /\ UNCHANGED schedVars

\* mutant: the reset does not look at the lock
reset_history_unchecked ==
    /\ Idle
    /\ Quiet
    /\ viewed_photos' = {}
    /\ moved_in' = {}
    /\ date_cache' = {}
    /\ \E v \in save_viewed_photos({}, viewedFile) :
       \E c \in save_date_cache({}, TRUE, cacheFile) :
          /\ ioFails + Fails(v) + Fails(c) <= MaxFaults - moveFails
          /\ viewedFile' = v.file
          /\ cacheFile' = c.file
          /\ cache_dirty' = c.dirty
          /\ ioFails' = ioFails + Fails(v) + Fails(c)
    /\ UNCHANGED <<fsVars, cfgVars, schedVars, opVars, uiVars, moveFails>>

reset_history ==
    /\ Idle
    /\ IF operation_lock
       THEN /\ alert' = "Operation in Progress"
            /\ UNCHANGED <<fsVars, cfgVars, schedVars, histVars, cacheVars, opVars, gui,
                           status, faultVars>>
       ELSE /\ Quiet
            /\ viewed_photos' = {}
            /\ moved_in' = {}
            /\ date_cache' = {}
            /\ \E v \in save_viewed_photos({}, viewedFile) :
               \E c \in save_date_cache({}, TRUE, cacheFile) :
                  /\ ioFails + Fails(v) + Fails(c) <= MaxFaults - moveFails
                  /\ viewedFile' = v.file
                  /\ cacheFile' = c.file
                  /\ cache_dirty' = c.dirty
                  /\ ioFails' = ioFails + Fails(v) + Fails(c)
            /\ UNCHANGED <<fsVars, cfgVars, schedVars, opVars, uiVars, moveFails>>

\* on_closing up to the join: the cancellation is set, and the thread joins
\* the worker (for at most 2 s) when one is alive
on_closing ==
    /\ Quiet
    /\ Idle
    /\ operation_cancelled' = TRUE
    /\ gui' = IF current_thread # 0 /\ Alive(current_thread)
              THEN "joining" ELSE "saving"
    /\ UNCHANGED <<fsVars, cfgVars, schedVars, histVars, cacheVars, operation_lock,
                   current_thread, thr, status, faultVars>>

\* on_closing after the join (the worker ended or the timeout expired):
\* save_date_cache writes the mapping when dirty; root.destroy() follows
on_closing_save ==
    /\ Quiet
    /\ gui \in {"joining", "saving"}
    /\ IF ~cache_dirty
       THEN gui' = "closed" /\ UNCHANGED <<cacheVars, ioFails>>
       ELSE \E o \in WriteOutcomes(cacheFile, DumpCache(date_cache)) :
               /\ cacheFile' = o.file
               /\ ioFails' = ioFails + Fails(o)
               /\ gui' = IF o.ok THEN "saved" ELSE "closed"
               /\ UNCHANGED <<date_cache, cache_dirty>>
    /\ UNCHANGED <<fsVars, cfgVars, schedVars, histVars, opVars, status, moveFails>>

\* save_date_cache, after its json.dump: self.cache_dirty = False
on_closing_saved ==
    /\ Quiet
    /\ gui = "saved"
    /\ cache_dirty' = FALSE
    /\ gui' = "closed"
    /\ UNCHANGED <<fsVars, cfgVars, schedVars, histVars, date_cache, cacheFile, opVars,
                   status, faultVars>>

\* ---------------------------------------------- schedule entries and timer
\* the "Switch Photos Now" button: command=self.switch_photos_async
switch_button == switch_photos_async /\ UNCHANGED schedVars

\* a handler of the coordinating thread that touches no rotation state
NoRotationStep ==
    /\ Quiet
    /\ UNCHANGED <<fsVars, cfgVars, histVars, cacheVars, opVars, uiVars, faultVars>>

\* texts the user may type into the two schedule entries
TimeTexts ==
    {BadTime} \cup {TimeOfDay(h, m) : h \in {0, 12, 21, 23}, m \in {0, 15, 59}}
SwitchTexts ==
    {[isInt |-> FALSE, val |-> 0]}
    \cup {[isInt |-> TRUE, val |-> v] :
             v \in (0..MaxTyped) \cup {MaxSwitches, MaxSwitches + 1}}

type_main_time ==
    /\ Idle
    /\ \E text \in TimeTexts : main_time' = text
    /\ NoRotationStep
    /\ UNCHANGED <<switches_per_day, now, timer, last_tick, tick_request, next_switch>>

type_switches_per_day ==
    /\ Idle
    /\ \E text \in SwitchTexts : switches_per_day' = text
    /\ NoRotationStep
    /\ UNCHANGED <<main_time, now, timer, last_tick, tick_request, next_switch>>

\* the "Update Settings" button: update_next_switch
update_settings ==
    /\ Idle
    /\ next_switch' = NextSwitchText(main_time, switches_per_day, now)
    /\ NoRotationStep
    /\ UNCHANGED <<main_time, switches_per_day, now, timer, last_tick, tick_request>>

\* the end of the clock time followed
Horizon == DateTime(0, 21 * 3600 + 13 * 60 + ClockSpan, 0)

\* a second passes; the timer callback runs at most MaxDelay after it is due
time_passes ==
    /\ DtLess(now, Horizon)
    /\ DtLess(now, PlusSeconds(timer, MaxDelay))
    /\ now' = PlusSeconds(now, 1)
    /\ Quiet
    /\ UNCHANGED <<fsVars, cfgVars, histVars, cacheVars, opVars, uiVars, faultVars,
                   main_time, switches_per_day, timer, last_tick, tick_request,
                   next_switch>>

\* check_scheduled_switches reaches self.switch_photos_async(): the lock is
\* free and a switch time, cut to its minute, equals now cut to its minute
SwitchDue ==
    /\ ~operation_lock
    /\ \E switch_times \in {get_switch_times(main_time, switches_per_day, now)} :
          \E k \in 1..Len(switch_times) :
             MinuteOf(switch_times[k]) = MinuteOf(now)

\* periodic_update, run by the timer: check_scheduled_switches,
\* update_next_switch, root.after(60000, self.periodic_update)
periodic_update ==
    /\ Idle
    /\ ~DtLess(now, timer)
    /\ IF SwitchDue THEN switch_photos_async ELSE NoRotationStep
    /\ tick_request' = SwitchDue
    /\ next_switch' = NextSwitchText(main_time, switches_per_day, now)
    /\ timer' = PlusSeconds(now, TickSeconds)
    /\ last_tick' = now
    /\ UNCHANGED <<main_time, switches_per_day, now>>

\* ------------------------------------------------------------ worker thread
\* mutant: the worker returns without releasing the lock
Release_skipped(t) ==
    /\ thr' = [thr EXCEPT ![t] = IdleThread]
    /\ UNCHANGED operation_lock

\* the worker returns: `finally: self.operation_lock.release()`
Release(t) ==
    /\ thr' = [thr EXCEPT ![t] = IdleThread]
    /\ operation_lock' = FALSE

\* a per-file rename/unlink may raise; the error is logged and the file skipped
MayFail == moveFails + ioFails < MaxFaults

\* for photo in self.iter_photos(gallery_path): the listing of the gallery
ReturnPassStart(t) ==
    thr' = [thr EXCEPT ![t].pc = "ret_loop", ![t].todo = gal,
                       ![t].dupes0 = lib \cap gal]

\* _switch_photos_worker up to the return loop
switch_worker_start(t) ==
    /\ Quiet
    /\ thr[t].pc = "start" /\ thr[t].kind = "switch"
    /\ IF ~libExists
       THEN /\ status' = StatusMsg("Error", 0)
            /\ Release(t)
            /\ UNCHANGED galExists
       ELSE /\ galExists' = TRUE
            /\ ReturnPassStart(t)
            /\ UNCHANGED <<status, operation_lock>>
    /\ UNCHANGED <<lib, gal, libExists, samePath, fileDate, cfgVars, schedVars, histVars,
                   cacheVars, operation_cancelled, current_thread, gui,
                   faultVars>>

\* _clear_gallery_worker up to the return loop
clear_worker_start(t) ==
    /\ Quiet
    /\ thr[t].pc = "start" /\ thr[t].kind = "clear"
    /\ IF ~galExists
       THEN /\ status' = StatusMsg("Gallery directory does not exist", 0)
            /\ Release(t)
       ELSE /\ ReturnPassStart(t)
            /\ UNCHANGED <<status, operation_lock>>
    /\ UNCHANGED <<fsVars, cfgVars, schedVars, histVars, cacheVars, operation_cancelled,
                   current_thread, gui, faultVars>>

\* mutant: the checkpoints never see the cancellation
Cancelled_unseen == FALSE

\* the checkpoint of a per-file loop: if self.operation_cancelled.is_set(): return
Cancelled == operation_cancelled

\* head of the return loop: the next gallery photo, and the checkpoint
return_check(t) ==
    /\ Quiet
    /\ thr[t].pc = "ret_loop" /\ thr[t].todo # {}
    /\ IF Cancelled
       THEN Release(t)
       ELSE /\ \E photo \in thr[t].todo :
                  thr' = [thr EXCEPT ![t].pc = "ret_op", ![t].cur = photo,
                                     ![t].todo = @ \ {photo}]
            /\ UNCHANGED operation_lock
    /\ UNCHANGED <<fsVars, cfgVars, schedVars, histVars, cacheVars, operation_cancelled,
                   current_thread, uiVars, faultVars>>

\* mutant: the return loop unlinks the gallery photo without looking for the
\* library copy
return_move_unlinks(t) ==
    /\ Quiet
    /\ thr[t].pc = "ret_op"
    /\ LET photo == thr[t].cur IN
       \/ /\ gal' = gal \ {photo}
          /\ moved_in' = moved_in \ {photo}
          /\ thr' = [thr EXCEPT ![t].pc = "ret_loop", ![t].cur = 0,
                                ![t].deleted_dupes = @ \cup {photo}]
          /\ UNCHANGED <<lib, moveFails>>
       \/ /\ MayFail
          /\ moveFails' = moveFails + 1
          /\ thr' = [thr EXCEPT ![t].pc = "ret_loop", ![t].cur = 0]
          /\ UNCHANGED <<lib, gal, moved_in>>
    /\ UNCHANGED <<libExists, galExists, samePath, fileDate, cfgVars, schedVars,
                   viewed_photos, viewedFile,
                   cacheVars, operation_lock, operation_cancelled,
                   current_thread, uiVars, ioFails>>

\* body of the return loop: a duplicate is deleted from the gallery, any
\* other photo is renamed into the library
return_move(t) ==
    /\ Quiet
    /\ thr[t].pc = "ret_op"
    /\ LET photo == thr[t].cur IN
       \/ /\ photo \in lib
          /\ gal' = gal \ {photo}
          /\ moved_in' = moved_in \ {photo}
          /\ thr' = [thr EXCEPT ![t].pc = "ret_loop", ![t].cur = 0,
                                ![t].deleted_dupes = @ \cup {photo}]
          /\ UNCHANGED <<lib, moveFails>>
       \/ /\ photo \notin lib
          /\ gal' = gal \ {photo}
          /\ lib' = lib \cup {photo}
          /\ thr' = [thr EXCEPT ![t].pc = "ret_loop", ![t].cur = 0,
                                ![t].moved_back = @ + 1]
          /\ UNCHANGED <<moveFails, moved_in>>
       \/ /\ MayFail
          /\ moveFails' = moveFails + 1
          /\ thr' = [thr EXCEPT ![t].pc = "ret_loop", ![t].cur = 0]
          /\ UNCHANGED <<lib, gal, moved_in>>
    /\ UNCHANGED <<libExists, galExists, samePath, fileDate, cfgVars, schedVars,
                   viewed_photos, viewedFile,
                   cacheVars, operation_lock, operation_cancelled,
                   current_thread, uiVars, ioFails>>

\* mutant: the deleted duplicates stay in the history
DiscardDupes_kept(t) == UNCHANGED <<histVars, ioFails>>

\* after the return loop: the deleted duplicates leave the history, which is
\* then saved
DiscardDupes(t) ==
    IF thr[t].deleted_dupes = {}
    THEN UNCHANGED <<histVars, ioFails>>
    ELSE /\ viewed_photos' = viewed_photos \ thr[t].deleted_dupes
         /\ UNCHANGED moved_in
         /\ \E v \in save_viewed_photos(viewed_photos \ thr[t].deleted_dupes,
                                        viewedFile) :
               /\ viewedFile' = v.file
               /\ ioFails' = ioFails + Fails(v)

\* mutant: after its return loop the clear goes on to select, as a switch
clear_worker_finish_selects(t) ==
    /\ Quiet
    /\ thr[t].pc = "ret_loop" /\ thr[t].todo = {} /\ thr[t].kind = "clear"
    /\ DiscardDupes(t)
    /\ thr' = [thr EXCEPT ![t].pc = "scan", ![t].count = 1,
                          ![t].mode = selection_mode, ![t].todo = lib]
    /\ UNCHANGED <<fsVars, cfgVars, schedVars, cacheVars, operation_lock,
                   operation_cancelled, current_thread, uiVars, moveFails>>

\* _clear_gallery_worker after the return loop
clear_worker_finish(t) ==
    /\ Quiet
    /\ thr[t].pc = "ret_loop" /\ thr[t].todo = {} /\ thr[t].kind = "clear"
    /\ DiscardDupes(t)
    /\ status' = StatusMsg("Moved back", thr[t].moved_back)
    /\ Release(t)
    /\ UNCHANGED <<fsVars, cfgVars, schedVars, cacheVars, operation_cancelled,
                   current_thread, gui, moveFails>>

\* _switch_photos_worker between the return loop and the scan of
\* select_photos: the count and mode are read again, the count clamped
switch_return_done(t) ==
    /\ Quiet
    /\ thr[t].pc = "ret_loop" /\ thr[t].todo = {} /\ thr[t].kind = "switch"
    /\ DiscardDupes(t)
    /\ \E text \in CountTexts :
       IF ~text.isInt
       THEN /\ status' = StatusMsg("Error", 0)
            /\ Release(t)
       ELSE /\ thr' = [thr EXCEPT ![t].pc = "scan",
                                  ![t].count = ClampCount(text.val),
                                  ![t].mode = selection_mode,
                                  ![t].todo = lib]
            /\ UNCHANGED <<status, operation_lock>>
    /\ UNCHANGED <<fsVars, cfgVars, schedVars, cacheVars, operation_cancelled,
                   current_thread, gui, moveFails>>

\* ------------------------------------------------------------ select_photos
\* mutant: the generator yields every photo
IsUnviewed_all(photo) == TRUE

\* unviewed_photos: `if photo.name not in self.viewed_photos: yield photo`
IsUnviewed(photo) == photo \notin viewed_photos

\* photo_with_date_gen every 5000 photos: save_date_cache(); else nothing
PeriodicSave(n) ==
    IF n % ScanFlushInterval = 0
    THEN save_date_cache(date_cache, cache_dirty, cacheFile)
    ELSE {[file |-> cacheFile, dirty |-> cache_dirty, ok |-> TRUE]}

\* the generator yields (self.get_photo_date(photo), photo) to the heap
YieldDated(t, photo, s) ==
    LET g == get_photo_date(date_cache, s.dirty, photo) IN
    /\ date_cache' = g.cache
    /\ cache_dirty' = g.dirty
    /\ cacheFile' = s.file
    /\ ioFails' = ioFails + Fails(s)
    /\ thr' = [thr EXCEPT ![t].todo = @ \ {photo},
                          ![t].processed = @ + 1,
                          ![t].heap = heap_step(thr[t].mode, @, thr[t].count,
                                                <<g.date, photo>>)]

\* one photo of the first scan of the library (both checkpoints passed)
scan_step(t) ==
    /\ Quiet
    /\ thr[t].pc = "scan" /\ thr[t].todo # {} /\ ~Cancelled
    /\ \E photo \in thr[t].todo :
          IF ~IsUnviewed(photo)
          THEN /\ thr' = [thr EXCEPT ![t].todo = @ \ {photo}]
               /\ UNCHANGED <<cacheVars, ioFails>>
          ELSE IF thr[t].mode = "Random"
          THEN /\ thr' = [thr EXCEPT ![t].todo = @ \ {photo},
                                     ![t].unviewed = @ \cup {photo}]
               /\ UNCHANGED <<cacheVars, ioFails>>
          ELSE \E s \in PeriodicSave(thr[t].processed + 1) :
                  YieldDated(t, photo, s)
    /\ UNCHANGED <<fsVars, cfgVars, schedVars, histVars, operation_lock,
                   operation_cancelled, current_thread, uiVars, moveFails>>

\* mutant: at exhaustion the history is saved as it is
ResetHistory_kept(v) ==
    /\ UNCHANGED <<viewed_photos, moved_in>>
    /\ viewedFile' = v.file

\* "not enough unviewed photos": the history is cleared and saved
ResetHistory(v) ==
    /\ viewed_photos' = {}
    /\ moved_in' = {}
    /\ viewedFile' = v.file

\* the first scan ended (directory exhausted, or the generator returned at a
\* checkpoint), Random mode: reset when too few, then random.sample
scan_end_random(t) ==
    /\ Quiet
    /\ thr[t].pc = "scan" /\ (thr[t].todo = {} \/ Cancelled)
    /\ thr[t].mode = "Random"
    /\ IF Cardinality(thr[t].unviewed) < thr[t].count
       THEN \E v \in save_viewed_photos({}, viewedFile) :
               /\ ResetHistory(v)
               /\ ioFails' = ioFails + Fails(v)
               /\ \E sel \in RandomSample(lib, Min({thr[t].count, Cardinality(lib)})) :
                     thr' = [thr EXCEPT ![t].pc = "mv_loop", ![t].todo = {},
                                        ![t].unviewed = {}, ![t].selected = sel]
       ELSE /\ \E sel \in RandomSample(thr[t].unviewed, thr[t].count) :
                  thr' = [thr EXCEPT ![t].pc = "mv_loop", ![t].todo = {},
                                     ![t].unviewed = {}, ![t].selected = sel]
            /\ UNCHANGED <<histVars, ioFails>>
    /\ UNCHANGED <<fsVars, cfgVars, schedVars, cacheVars, operation_lock,
                   operation_cancelled, current_thread, uiVars, moveFails>>

\* the first scan ended, Newest/Oldest mode: the heap's photos, the cache
\* saved; when too few, the history is reset and the full directory rescanned
scan_end_dated(t) ==
    /\ Quiet
    /\ thr[t].pc = "scan" /\ (thr[t].todo = {} \/ Cancelled)
    /\ thr[t].mode # "Random"
    /\ \E c \in save_date_cache(date_cache, cache_dirty, cacheFile) :
          /\ cacheFile' = c.file
          /\ cache_dirty' = c.dirty
          /\ IF Cardinality(thr[t].heap) < thr[t].count
             THEN \E v \in save_viewed_photos({}, viewedFile) :
                     /\ ioFails + Fails(c) + Fails(v) <= MaxFaults - moveFails
                     /\ ResetHistory(v)
                     /\ ioFails' = ioFails + Fails(c) + Fails(v)
                     /\ thr' = [thr EXCEPT ![t].pc = "rescan", ![t].todo = lib,
                                           ![t].heap = {}, ![t].processed = 0]
             ELSE /\ ioFails' = ioFails + Fails(c)
                  /\ thr' = [thr EXCEPT ![t].pc = "mv_loop", ![t].todo = {},
                                        ![t].heap = {}, ![t].processed = 0,
                                        ![t].selected =
                                            heap_result(thr[t].mode, thr[t].heap)]
                  /\ UNCHANGED histVars
    /\ UNCHANGED <<fsVars, cfgVars, schedVars, date_cache, operation_lock,
                   operation_cancelled, current_thread, uiVars, moveFails>>

\* one photo of the rescan of the full directory (all_photos_with_date)
rescan_step(t) ==
    /\ Quiet
    /\ thr[t].pc = "rescan" /\ thr[t].todo # {} /\ ~Cancelled
    /\ \E photo \in thr[t].todo :
          YieldDated(t, photo, [file |-> cacheFile, dirty |-> cache_dirty, ok |-> TRUE])
    /\ UNCHANGED <<fsVars, cfgVars, schedVars, histVars, operation_lock,
                   operation_cancelled, current_thread, uiVars, moveFails>>

\* the rescan ended: the heap's photos, the cache saved
rescan_end(t) ==
    /\ Quiet
    /\ thr[t].pc = "rescan" /\ (thr[t].todo = {} \/ Cancelled)
    /\ \E c \in save_date_cache(date_cache, cache_dirty, cacheFile) :
          /\ cacheFile' = c.file
          /\ cache_dirty' = c.dirty
          /\ ioFails' = ioFails + Fails(c)
    /\ thr' = [thr EXCEPT ![t].pc = "mv_loop", ![t].todo = {}, ![t].heap = {},
                          ![t].processed = 0,
                          ![t].selected = heap_result(thr[t].mode, thr[t].heap)]
    /\ UNCHANGED <<fsVars, cfgVars, schedVars, histVars, date_cache, operation_lock,
                   operation_cancelled, current_thread, uiVars, moveFails>>

\* ------------------------------------------------- move to gallery, finish
\* head of the move loop: the next selected photo, and the checkpoint
move_check(t) ==
    /\ Quiet
    /\ thr[t].pc = "mv_loop" /\ thr[t].selected # <<>>
    /\ IF Cancelled
       THEN Release(t)
       ELSE /\ thr' = [thr EXCEPT ![t].pc = "mv_op",
                                  ![t].cur = Head(thr[t].selected),
                                  ![t].selected = Tail(@)]
            /\ UNCHANGED operation_lock
    /\ UNCHANGED <<fsVars, cfgVars, schedVars, histVars, cacheVars, operation_cancelled,
                   current_thread, uiVars, faultVars>>

\* mutant: the name is added to the history before the rename is tried
move_to_gallery_added_first(t) ==
    /\ Quiet
    /\ thr[t].pc = "mv_op"
    /\ LET photo == thr[t].cur IN
       \/ /\ lib' = lib \ {photo}
          /\ gal' = gal \cup {photo}
          /\ viewed_photos' = viewed_photos \cup {photo}
          /\ moved_in' = moved_in \cup {photo}
          /\ thr' = [thr EXCEPT ![t].pc = "mv_loop", ![t].cur = 0,
                                ![t].moved_to_gallery = @ + 1]
          /\ UNCHANGED moveFails
       \/ /\ MayFail
          /\ moveFails' = moveFails + 1
          /\ viewed_photos' = viewed_photos \cup {photo}
          /\ thr' = [thr EXCEPT ![t].pc = "mv_loop", ![t].cur = 0]
          /\ UNCHANGED <<lib, gal, moved_in>>
    /\ UNCHANGED <<libExists, galExists, samePath, fileDate, cfgVars, schedVars, viewedFile,
                   cacheVars, operation_lock, operation_cancelled,
                   current_thread, uiVars, ioFails>>

\* body of the move loop: photo.rename(new_path), then the name is added to
\* the history; when rename raises the photo is skipped
move_to_gallery(t) ==
    /\ Quiet
    /\ thr[t].pc = "mv_op"
    /\ LET photo == thr[t].cur IN
       \/ /\ lib' = lib \ {photo}
          /\ gal' = gal \cup {photo}
          /\ viewed_photos' = viewed_photos \cup {photo}
          /\ moved_in' = moved_in \cup {photo}
          /\ thr' = [thr EXCEPT ![t].pc = "mv_loop", ![t].cur = 0,
                                ![t].moved_to_gallery = @ + 1]
          /\ UNCHANGED moveFails
       \/ /\ MayFail
          /\ moveFails' = moveFails + 1
          /\ thr' = [thr EXCEPT ![t].pc = "mv_loop", ![t].cur = 0]
          /\ UNCHANGED <<lib, gal, viewed_photos, moved_in>>
    /\ UNCHANGED <<libExists, galExists, samePath, fileDate, cfgVars, schedVars, viewedFile,
                   cacheVars, operation_lock, operation_cancelled,
                   current_thread, uiVars, ioFails>>

\* after the move loop: the history is saved and the count moved reported
switch_worker_finish(t) ==
    /\ Quiet
    /\ thr[t].pc = "mv_loop" /\ thr[t].selected = <<>>
    /\ \E v \in save_viewed_photos(viewed_photos, viewedFile) :
          /\ viewedFile' = v.file
          /\ ioFails' = ioFails + Fails(v)
    /\ status' = StatusMsg("Switched", thr[t].moved_to_gallery)
    /\ Release(t)
    /\ UNCHANGED <<fsVars, cfgVars, schedVars, viewed_photos, moved_in, cacheVars,
                   operation_cancelled, current_thread, gui, moveFails>>

\* ------------------------------------------------------------ specification
Worker(t) ==
    \/ switch_worker_start(t)
    \/ clear_worker_start(t)
    \/ return_check(t)
    \/ return_move(t)
    \/ clear_worker_finish(t)
    \/ switch_return_done(t)
    \/ scan_step(t)
    \/ scan_end_random(t)
    \/ scan_end_dated(t)
    \/ rescan_step(t)
    \/ rescan_end(t)
    \/ move_check(t)
    \/ move_to_gallery(t)
    \/ switch_worker_finish(t)

Next ==
    \/ switch_button
    \/ clear_gallery_async
    \/ reset_history
    \/ on_closing
    \/ on_closing_save
    \/ on_closing_saved
    \/ \E t \in Threads : Worker(t)

Spec == Init /\ [][Next]_vars

\* a fresh installation: neither record exists yet
FreshInit == Init /\ viewedFile = MissingFile /\ cacheFile = MissingFile

\* a fresh installation whose started worker threads keep being scheduled
FairSpec ==
    FreshInit /\ [][Next]_vars /\ \A t \in Threads : WF_vars(Worker(t))

\* the library drive is not mounted and no record exists
InitUnmounted ==
    /\ InitProgram
    /\ ~libExists /\ viewedFile = MissingFile /\ cacheFile = MissingFile

\* the schedule entries hold any text, at noon or in the last second of a day
InitTimes ==
    /\ InitUnmounted
    /\ main_time \in TimeTexts
    /\ switches_per_day \in SwitchTexts
    /\ now \in {DateTime(0, 12 * 3600, 0), DateTime(1, SecondsPerDay - 1, 0)}
    /\ InitTimer

NextTimes == type_main_time \/ type_switches_per_day \/ update_settings

\* the schedule entries being edited and applied
TimesSpec == InitTimes /\ [][NextTimes]_vars

\* one or two switches a day from 21:15, the program started during 21:13,
\* its first periodic_update due at once
InitTimerRun ==
    /\ InitUnmounted
    /\ main_time = TimeOfDay(21, 15)
    /\ switches_per_day \in {[isInt |-> TRUE, val |-> v] : v \in 1..2}
    /\ now \in {DateTime(0, 21 * 3600 + 13 * 60 + s, 0) : s \in 0..59}
    /\ timer = now
    /\ last_tick = now
    /\ tick_request = FALSE
    /\ next_switch = NextSwitchText(main_time, switches_per_day, now)

NextTimer ==
    \/ time_passes
    \/ periodic_update
    \/ \E t \in Threads : switch_worker_start(t)

\* the timer running while the clock advances
TimerSpec == InitTimerRun /\ [][NextTimer]_vars

\* A library of fewer photos than files can be named: none, one, or all; the
\* gallery is empty
InitSparseFiles ==
    /\ selection_mode \in Modes
    /\ libExists = TRUE /\ galExists = TRUE /\ samePath = FALSE
    /\ lib \in {{}, {1}, Files}
    /\ gal = {}

InitSparse == InitSparseFiles /\ InitFields /\ InitDefaultSchedule

SparseSpec == InitSparse /\ [][Next]_vars

\* The scans of the dated modes with get_photo_date in two steps, as the
\* shutdown flush of the coordinating thread can run between them: the
\* generator passes its checkpoints and takes the next photo
\* (_calculate_photo_date then reads the file), and the date is put into
\* the cache (lines 82-83).  A photo of the first scan that is in the
\* history is skipped at once.
date_resolve(t) ==
    /\ Quiet
    /\ thr[t].pc \in {"scan", "rescan"} /\ thr[t].mode # "Random"
    /\ thr[t].todo # {} /\ ~Cancelled
    /\ \E photo \in thr[t].todo :
          IF thr[t].pc = "scan" /\ ~IsUnviewed(photo)
          THEN thr' = [thr EXCEPT ![t].todo = @ \ {photo}]
          ELSE thr' = [thr EXCEPT ![t].cur = photo,
                                  ![t].pc = IF @ = "scan" THEN "scan_date"
                                            ELSE "rescan_date"]
    /\ UNCHANGED <<fsVars, cfgVars, schedVars, histVars, cacheVars, operation_lock,
                   operation_cancelled, current_thread, uiVars, faultVars>>

date_put(t) ==
    /\ Quiet
    /\ thr[t].pc \in {"scan_date", "rescan_date"}
    /\ LET g == get_photo_date(date_cache, cache_dirty, thr[t].cur) IN
       /\ date_cache' = g.cache
       /\ cache_dirty' = g.dirty
       /\ thr' = [thr EXCEPT ![t].pc = IF @ = "scan_date" THEN "scan" ELSE "rescan",
                             ![t].cur = 0,
                             ![t].todo = @ \ {thr[t].cur},
                             ![t].processed = @ + 1,
                             ![t].heap = heap_step(thr[t].mode, @, thr[t].count,
                                                   <<g.date, thr[t].cur>>)]
    /\ UNCHANGED <<fsVars, cfgVars, schedVars, histVars, cacheFile, operation_lock,
                   operation_cancelled, current_thread, uiVars, faultVars>>

\* a switch in a dated mode on a fresh installation, and the window closed
\* at any moment
InitFlush == FreshInit /\ selection_mode # "Random"

DatedWorker(t) ==
    \/ switch_worker_start(t)
    \/ return_check(t)
    \/ return_move(t)
    \/ switch_return_done(t)
    \/ date_resolve(t)
    \/ date_put(t)
    \/ scan_end_dated(t)
    \/ rescan_end(t)
    \/ move_check(t)
    \/ move_to_gallery(t)
    \/ switch_worker_finish(t)

NextFlush ==
    \/ switch_button
    \/ on_closing
    \/ on_closing_save
    \/ on_closing_saved
    \/ \E t \in Threads : DatedWorker(t)

FlushSpec == InitFlush /\ [][NextFlush]_vars

\* The records found at startup: any content a file can hold.  __init__
\* loads them (lines 27-28); the other fields are shown at the values the
\* rest of __init__ gives them.
RecordContents ==
    {MissingFile, CorruptFile, NumberFile}
    \cup {DumpViewed(v) : v \in SUBSET Files}
    \cup {DumpCache({})} \cup {DumpCache({<<1, d>>}) : d \in Dates}

InitLoad ==
    /\ selection_mode = "Random"
    /\ libExists = TRUE /\ galExists = TRUE /\ samePath = FALSE
    /\ lib = Files /\ gal = {}
    /\ fileDate = [f \in Files |-> 1]
    /\ viewedFile \in RecordContents
    /\ cacheFile \in RecordContents
    /\ viewed_photos = {}
    /\ moved_in = {}
    /\ date_cache = {}
    /\ cache_dirty = FALSE
    /\ operation_lock = FALSE
    /\ operation_cancelled = FALSE
    /\ current_thread = 0
    /\ thr = [t \in Threads |-> IdleThread]
    /\ gui = "constructing"
    /\ status = StatusMsg("Ready", 0)
    /\ alert = "none"
    /\ moveFails = 0
    /\ ioFails = 0
    /\ InitDefaultSchedule

\* __init__, lines 27-28: both records are loaded.  date_cache is a mapping
\* everywhere else in this module: when load_date_cache returns a value of
\* another type the run is followed no further (gui "cache is no mapping")
load_records ==
    /\ gui = "constructing"
    /\ viewed_photos' = load_viewed_photos(viewedFile)
    /\ moved_in' = load_viewed_photos(viewedFile)
    /\ IF load_date_cache_result(cacheFile).type = "dict"
       THEN /\ date_cache' = load_date_cache(cacheFile)
            /\ gui' = "idle"
       ELSE /\ gui' = "cache is no mapping"
            /\ UNCHANGED date_cache
    /\ UNCHANGED <<fsVars, cfgVars, schedVars, viewedFile, cacheFile, cache_dirty,
                   opVars, status, alert, faultVars>>

NextLoad == load_records \/ reset_history

LoadSpec == InitLoad /\ [][NextLoad]_vars

\* ------------------------------------------------------------------ claims
AliveThreads == {t \in Threads : Alive(t)}
Request == switch_photos_async \/ clear_gallery_async
Busy == "Operation already in progress"

\* C1: single-flight.  At most one worker thread executes at a time; a
\* request is never blocked (its handler can always run); a request made
\* while the lock is held logs the rejection and starts no worker; and a
\* worker only ever starts in a step that takes the free lock (nothing is
\* queued to start later).
C1_SingleFlight ==
    /\ [](Cardinality(AliveThreads) <= 1)
    /\ [](Idle => (ENABLED switch_photos_async /\ ENABLED clear_gallery_async))
    /\ [][(Request /\ operation_lock) => (thr' = thr /\ alert' = Busy)]_vars
    /\ [][(\E t \in Threads : ~Alive(t) /\ Alive(t)')
            => (Request /\ ~operation_lock /\ operation_lock')]_vars

\* C1 witness: a request was rejected while a worker is executing
C1_Witness == alert = Busy /\ AliveThreads # {} /\ operation_lock

\* C2: a request rejected because a rotation is active changes neither the
\* history, the date cache and its dirty flag, the cancellation flag, the
\* lock, the worker nor the directories.
C2_RejectedRequestFrame ==
    [][(Request /\ operation_lock)
         => UNCHANGED <<viewed_photos, viewedFile, date_cache, cache_dirty,
                        cacheFile, operation_cancelled, operation_lock,
                        current_thread, thr, lib, gal, libExists, galExists>>]_vars

\* C2 witness: a request was rejected while a switch had already moved a
\* photo into the gallery
C2_Witness ==
    /\ alert = Busy
    /\ \E t \in Threads :
          thr[t].kind = "switch" /\ thr[t].pc = "mv_loop" /\ thr[t].moved_to_gallery > 0

\* the library's photos that are not in the history
Unviewed == {f \in lib : f \notin viewed_photos}

\* C3: coverage before repeat.  When a Random selection whose scan covered
\* the whole library (count C < N files) returns, no returned filename is in
\* the history as it was at the selection, unless fewer than C library
\* files were unviewed, and then the history has been reset.
C3_CoverageBeforeRepeat ==
    [][\A t \in Threads :
          (/\ thr[t].pc = "scan" /\ thr'[t].pc = "mv_loop"
           /\ thr[t].mode = "Random" /\ thr[t].todo = {}
           /\ thr[t].count < Cardinality(lib))
          => \/ /\ Range(thr'[t].selected) \cap viewed_photos = {}
                /\ Cardinality(Unviewed) >= thr[t].count
                /\ viewed_photos' = viewed_photos
             \/ /\ Cardinality(Unviewed) < thr[t].count
                /\ viewed_photos' = {}]_vars

\* C3 witness: a Random selection returned unviewed photos only while
\* other photos were in the history
C3_Witness ==
    \E t \in Threads :
       /\ thr[t].pc = "mv_loop" /\ thr[t].mode = "Random"
       /\ viewed_photos \cap lib # {}
       /\ Len(thr[t].selected) = thr[t].count
       /\ Range(thr[t].selected) \cap viewed_photos = {}

\* an operation ends normally: the worker returns with its completion message
FinishesNormally(t) ==
    Alive(t) /\ ~Alive(t)' /\ status'.msg \in {"Switched", "Moved back"}

\* the return pass of an operation ends (every gallery photo was handled)
ReturnPassEnds(t) ==
    thr[t].pc = "ret_loop" /\ thr[t].todo = {} /\ thr'[t].pc # "ret_loop"

InFileOp(t) == thr[t].pc \in {"ret_op", "mv_op"}

\* C5: cancellation safety.  Once the cancellation flag is set no worker
\* passes a per-file checkpoint again, so the directories change only by the
\* one rename/unlink of a worker that had already passed its checkpoint
\* (nothing is moved back); and every worker then terminates.
C5_CancellationSafety ==
    /\ [][operation_cancelled =>
            /\ \A t \in Threads : InFileOp(t)' => InFileOp(t)
            /\ (lib' # lib \/ gal' # gal) =>
                  \E t \in Threads :
                     /\ InFileOp(t) /\ ~InFileOp(t)'
                     /\ (thr[t].pc = "ret_op" =>
                            gal' = gal \ {thr[t].cur} /\ lib' = lib \cup {thr[t].cur})
                     /\ (thr[t].pc = "mv_op" =>
                            lib' = lib \ {thr[t].cur} /\ gal' = gal \cup {thr[t].cur})]_vars
    /\ (operation_cancelled ~> (AliveThreads = {}))

\* C5 witness: the cancellation was set while a worker was past the
\* checkpoint of a move, with photos still to move
C5_Witness ==
    /\ operation_cancelled
    /\ \E t \in Threads : thr[t].pc = "mv_op" /\ thr[t].selected # <<>>

\* C6 as claimed: when on_closing finishes (the worker ended within the
\* wait, no write failed) the persisted history equals the in-memory one.
C6_HistoryFlushedAtShutdown ==
    [][(gui # "closed" /\ gui' = "closed" /\ AliveThreads = {} /\ ioFails' = 0)
          => load_viewed_photos(viewedFile') = viewed_photos']_vars

\* C7: path validation.  A request made while both paths resolve to one
\* directory changes no directory and no file, leaves the history alone,
\* starts no worker and leaves the lock free; no worker ever runs then.
C7_PathValidation ==
    /\ [][(Request /\ samePath)
            => /\ UNCHANGED <<lib, gal, libExists, galExists, viewed_photos,
                              viewedFile, thr>>
               /\ ~operation_lock']_vars
    /\ [](samePath => AliveThreads = {} /\ ~operation_lock)

\* C7 witness: a request was refused for its paths
C7_Witness == samePath /\ alert = "Invalid Path" /\ ~operation_lock

\* C8 as claimed: when the switch worker surfaces the error of reading the
\* count, it has moved or deleted no gallery file.
C8_CountErrorBeforeMutation ==
    [][\A t \in Threads :
          (/\ thr[t].kind = "switch" /\ thr[t].pc = "ret_loop"
           /\ ~Alive(t)' /\ status'.msg = "Error")
          => (thr[t].moved_back = 0 /\ thr[t].deleted_dupes = {})]_vars

\* the date select_photos compares a photo by: what get_photo_date returns
DateOf(f) == get_photo_date(date_cache, cache_dirty, f).date

\* f comes after g in the order of (date, path)
After(f, g) == DateOf(f) > DateOf(g) \/ (DateOf(f) = DateOf(g) /\ f > g)

\* C9: top-K.  When the scan of a Newest (Oldest) selection ends with the
\* directory exhausted, no cancellation and at least count unviewed photos,
\* the selection is exactly count unviewed photos, each after (before) every
\* unviewed photo left out, in the order of (date, path) with equal dates
\* ordered by path, listed greatest (least) first; this fixes the selected
\* set whatever order the directory was enumerated in.
C9_TopK ==
    [][\A t \in Threads :
          (/\ thr[t].pc = "scan" /\ thr'[t].pc # "scan"
           /\ thr[t].mode # "Random" /\ thr[t].todo = {}
           /\ ~operation_cancelled
           /\ Cardinality(Unviewed) >= thr[t].count)
          => LET sel == thr'[t].selected
                 S == Range(sel)
             IN /\ thr'[t].pc = "mv_loop"
                /\ Len(sel) = thr[t].count /\ Cardinality(S) = thr[t].count
                /\ S \subseteq Unviewed
                /\ \A f \in S, g \in Unviewed \ S :
                      IF thr[t].mode = "Newest" THEN After(f, g) ELSE After(g, f)
                /\ \A i \in 1..(Len(sel) - 1) :
                      IF thr[t].mode = "Newest" THEN After(sel[i], sel[i+1])
                      ELSE After(sel[i+1], sel[i])]_vars

\* C9 witness: a Newest selection left out an unviewed photo with the date of
\* a selected one, while the history was not empty (no reset)
C9_Witness ==
    \E t \in Threads :
       /\ thr[t].pc = "mv_loop" /\ thr[t].mode = "Newest"
       /\ thr[t].moved_to_gallery = 0 /\ ~operation_cancelled
       /\ viewed_photos # {}
       /\ \E f \in Range(thr[t].selected), g \in Unviewed \ Range(thr[t].selected) :
             /\ {f, g} \subseteq CacheKeys(date_cache)
             /\ CacheGet(date_cache, f) = CacheGet(date_cache, g)

\* C10: date-cache round trip.  (1) get_photo_date of a cached name returns
\* the cached date and changes nothing, and a name just put is got back
\* unchanged; (2) a save_date_cache that writes the record is read back by
\* load_date_cache as the in-memory mapping, and until shutdown a clean
\* dirty flag means the record already reads back as the mapping; (3) after
\* reset_history cleared and saved the cache, the record reads back empty.
C10_DateCacheRoundTrip ==
    /\ [](\A name \in Files :
            LET put == get_photo_date(date_cache, cache_dirty, name)
                get == get_photo_date(put.cache, put.dirty, name)
            IN /\ get.date = put.date /\ get.cache = put.cache
               /\ name \in CacheKeys(date_cache)
                     => /\ put.date = CacheGet(date_cache, name)
                        /\ put.cache = date_cache /\ put.dirty = cache_dirty)
    /\ [](\A o \in save_date_cache(date_cache, TRUE, cacheFile) :
            o.ok => (load_date_cache(o.file) = date_cache /\ ~o.dirty))
    /\ []((Idle /\ ~cache_dirty) => load_date_cache(cacheFile) = date_cache)
    /\ [][(reset_history /\ ~operation_lock /\ ioFails' = ioFails)
            => /\ date_cache' = {} /\ ~cache_dirty'
               /\ load_date_cache(cacheFile') = {}]_vars

\* C10 witness: the record was written from a mapping of several entries,
\* one of which differs from the date its file resolves to now
C10_Witness ==
    /\ ~cache_dirty /\ Idle
    /\ Cardinality(date_cache) >= 2
    /\ cacheFile = DumpCache(date_cache)
    /\ \E p \in date_cache : p[2] # fileDate[p[1]]

\* the minute of the day in which base_time + i * 24h / n falls
IdealMinute(time, n, i) == (time.hour * 60 + time.min + (i * HoursPerDay * 60) \div n) % (HoursPerDay * 60)

ScheduleValid ==
    /\ main_time.ok /\ switches_per_day.isInt
    /\ switches_per_day.val \in 1..MaxSwitches

\* C11 as claimed: get_switch_times is empty for a base time that is not
\* HH:MM or a count that is no integer in 1..100; is [base_time today] for
\* count 1; and for count n > 1 is n timestamps of today, ascending, whose
\* clock times (hour and minute) are those of base_time + i*24h/n, i < n.
C11_ScheduleMath ==
    \E times \in {get_switch_times(main_time, switches_per_day, now)} :
       /\ ~ScheduleValid => times = <<>>
       /\ (ScheduleValid /\ switches_per_day.val = 1)
             => times = <<DateTime(now.day, (main_time.hour * 60 + main_time.min) * 60, 0)>>
       /\ (ScheduleValid /\ switches_per_day.val > 1)
             => /\ Len(times) = switches_per_day.val
                /\ \A k \in 1..Len(times) : times[k].day = now.day
                /\ \A k \in 1..(Len(times) - 1) : DtLess(times[k], times[k + 1])
                /\ {ClockText(times[k]) : k \in 1..Len(times)}
                      = {IdealMinute(main_time, switches_per_day.val, i) :
                            i \in 0..(switches_per_day.val - 1)}

\* a scheduled switch time has arrived since the previous periodic_update
ArrivedSinceLastTick ==
    \E times \in {get_switch_times(main_time, switches_per_day, now)} :
       \E k \in 1..Len(times) :
          DtLess(last_tick, times[k]) /\ ~DtLess(now, times[k])

\* C12 as claimed: a periodic_update that runs (no rotation in progress)
\* when a scheduled switch time has arrived since the previous one calls
\* switch_photos_async.
C12_PeriodicTrigger ==
    [][(periodic_update /\ ~operation_lock /\ ArrivedSinceLastTick)
          => tick_request']_vars

\* C13: reset_history while a rotation is active.  Invoked while the lock
\* is held it leaves the history, the date cache, its dirty flag and both
\* records unchanged; a reset that finds the lock free runs with no worker
\* alive before or after it, a worker being alive only while the lock is held.
C13_ResetRejectedWhileActive ==
    /\ [][(reset_history /\ operation_lock)
            => UNCHANGED <<viewed_photos, viewedFile, date_cache, cache_dirty,
                           cacheFile>>]_vars
    /\ [][(reset_history /\ ~operation_lock)
            => (AliveThreads = {} /\ AliveThreads' = {})]_vars
    /\ [](AliveThreads # {} => operation_lock)

\* C13 witness: a reset was refused while a worker was running and both the
\* history and the date cache held entries
C13_Witness ==
    /\ alert = "Operation in Progress"
    /\ AliveThreads # {} /\ operation_lock
    /\ viewed_photos # {} /\ date_cache # {}

\* C14: both records tolerate absence and structural corruption on load.  A
\* history record that is missing, unparseable or no list loads as the empty
\* set; a cache record that is missing, unparseable or no mapping loads as
\* the empty mapping.
C14_LoadTolerant ==
    [][load_records =>
         /\ (viewedFile.kind # "list" => viewed_photos' = {})
         /\ (cacheFile.kind # "dict" =>
               /\ load_date_cache_result(cacheFile).type = "dict"
               /\ gui' = "idle"
               /\ date_cache' = {})]_vars

\* C15: the lock is released on every exit path of an accepted request.  The
\* lock is held exactly while a worker is alive: a request refused for its
\* configuration leaves the lock free, every worker that ends (by success,
\* after per-file errors, by an exception, at a missing gallery, at a
\* cancellation checkpoint) frees the held lock in its last step, and no
\* other step frees it; under fair scheduling of the workers a held lock is
\* eventually free; and a request made while the lock is free is not refused
\* as busy.
C15_LockReleased ==
    /\ [](operation_lock <=> AliveThreads # {})
    /\ [][(Request /\ alert' \in {"Invalid Input", "Invalid Path"})
            => (~operation_lock' /\ UNCHANGED thr)]_vars
    /\ [][\A t \in Threads :
            (Alive(t) /\ ~Alive(t)') => (operation_lock /\ ~operation_lock')]_vars
    /\ [][(operation_lock /\ ~operation_lock')
            => \E t \in Threads : Alive(t) /\ ~Alive(t)' /\ Worker(t)]_vars
    /\ (operation_lock ~> ~operation_lock)
    /\ [][(Request /\ ~operation_lock)
            => alert' # "Operation already in progress"]_vars

\* C15 witness: a worker returned at a cancellation checkpoint (no result was
\* reported) and the lock is free
C15_Witness ==
    /\ ~operation_lock /\ operation_cancelled
    /\ current_thread # 0 /\ AliveThreads = {}
    /\ status.msg = "Working..."

\* C16: the ViewedSet invariant.  In every state in which no rotation is in
\* progress, a filename is in the history if and only if a switch moved it
\* into the gallery and it was not since removed by a history reset or by
\* the deletion of its gallery copy as a duplicate.
C16_ViewedSetInvariant == ~operation_lock => viewed_photos = moved_in

\* a pass of select_photos over the directory is cut short by the
\* cancellation: the flag was set after the pass had enumerated some of the
\* directory's photos and before it had enumerated all, and the worker
\* leaves the pass
PassCancelled(t) ==
    /\ thr[t].pc \in {"scan", "rescan"}
    /\ thr[t].todo # {} /\ thr[t].todo # lib
    /\ Cancelled
    /\ thr'[t].pc # thr[t].pc

\* C17: cancellation aborts the selection.  When a pass of select_photos is
\* cut short by the cancellation, no further scan of the directory is
\* started, the returned sequence holds no photo that had not been
\* enumerated by then, and the date cache keeps its entries.
C17_CancelAbortsSelection ==
    [][\A t \in Threads :
          PassCancelled(t) =>
             /\ thr'[t].pc = "mv_loop"
             /\ Range(thr'[t].selected) \subseteq lib \ thr[t].todo
             /\ date_cache \subseteq date_cache']_vars

\* select_photos clears a history that held names
SelectionClearsHistory(t) ==
    /\ thr[t].pc = "scan"
    /\ viewed_photos # {} /\ viewed_photos' = {}

\* C18: the history is reset only on exhaustion.  Whenever select_photos
\* clears the history, the photos of the directory whose filename is not in
\* the history are fewer than the clamped count; this includes scans cut
\* short by the cancellation.
C18_ResetOnlyOnExhaustion ==
    [][\A t \in Threads :
          SelectionClearsHistory(t)
          => Cardinality(lib \ viewed_photos) < thr[t].count]_vars

\* the first scan of select_photos ends, uncancelled, with fewer unviewed
\* photos in the directory than the clamped count
Exhausted(t) ==
    /\ thr[t].pc = "scan" /\ thr'[t].pc # "scan"
    /\ ~operation_cancelled
    /\ Cardinality(lib \ viewed_photos) < thr[t].count

\* the reselection over the full directory ends, uncancelled
RescanEnds(t) ==
    /\ thr[t].pc = "rescan" /\ thr'[t].pc # "rescan"
    /\ ~operation_cancelled

\* seq lists k distinct photos of the directory
DistinctPhotos(seq, k) ==
    /\ Len(seq) = k
    /\ Range(seq) \subseteq lib
    /\ Cardinality(Range(seq)) = k

\* seq lists the photos of the directory that are first by date, in order:
\* latest first when newest, earliest first otherwise
TopByDate(seq, cache, newest) ==
    /\ \A f \in Range(seq) : \A g \in lib \ Range(seq) :
          IF newest THEN CacheGet(cache, f) >= CacheGet(cache, g)
          ELSE CacheGet(cache, f) <= CacheGet(cache, g)
    /\ \A i, j \in 1..Len(seq) : i < j =>
          IF newest THEN CacheGet(cache, seq[i]) >= CacheGet(cache, seq[j])
          ELSE CacheGet(cache, seq[i]) <= CacheGet(cache, seq[j])

\* C19: the exhaustion fallback, the same in every mode.  The count is
\* clamped to 1..10000.  When the first scan ends uncancelled with fewer
\* unviewed photos than the count, the history is cleared and (the write
\* succeeding) the record holds the empty list before any reselection; the
\* reselection, unless cancelled, returns min(count, photos in the directory)
\* distinct photos of the directory, in Newest and Oldest mode the first by
\* date over the whole directory.
C19_ExhaustionFallback ==
    [][\A t \in Threads :
          /\ thr'[t].pc = "scan" => thr'[t].count \in 1..MaxPhotoCount
          /\ Exhausted(t) =>
                /\ viewed_photos' = {}
                /\ ioFails' = ioFails => load_viewed_photos(viewedFile') = {}
                /\ IF thr[t].mode = "Random"
                   THEN DistinctPhotos(thr'[t].selected,
                                       Min({thr[t].count, Cardinality(lib)}))
                   ELSE /\ thr'[t].pc = "rescan"
                        /\ thr'[t].todo = lib /\ thr'[t].heap = {}
          /\ RescanEnds(t) =>
                /\ viewed_photos' = {}
                /\ DistinctPhotos(thr'[t].selected,
                                  Min({thr[t].count, Cardinality(lib)}))
                /\ TopByDate(thr'[t].selected, date_cache',
                             thr[t].mode = "Newest")]_vars

\* C19 witness: in Oldest mode, after a history reset, the reselection has
\* ranked the whole directory, of more photos than the count
C19_Witness ==
    \E t \in Threads :
       /\ thr[t].pc = "rescan" /\ thr[t].todo = {} /\ thr[t].mode = "Oldest"
       /\ ~operation_cancelled /\ viewed_photos = {}
       /\ Cardinality(thr[t].heap) = thr[t].count
       /\ Cardinality(lib) > thr[t].count
       /\ \E f, g \in lib : CacheGet(date_cache, f) # CacheGet(date_cache, g)

\* a rename or unlink of the worker's current file raises
FileOpFails(t) == InFileOp(t) /\ moveFails' = moveFails + 1

\* C20: the per-file error policy of switch and clear.  A rename or unlink
\* that fails changes no directory, history or counter and takes the worker
\* back to its loop with the rest of the batch as it was; a filename enters
\* the history only in a step that moves that file from the library into
\* the gallery; each counter grows by the files the step moved (the switch's
\* by moves into the gallery, the return pass's by moves back), and the
\* counts reported at the end are these counters.
C20_PerFileErrors ==
    [][/\ \A t \in Threads :
            /\ FileOpFails(t) =>
                  /\ UNCHANGED <<lib, gal, viewed_photos, viewedFile>>
                  /\ thr'[t] = [thr[t] EXCEPT
                                   !.pc = IF thr[t].pc = "mv_op" THEN "mv_loop"
                                          ELSE "ret_loop",
                                   !.cur = 0]
            /\ (Alive(t) /\ Alive(t)') =>
                  /\ thr'[t].moved_to_gallery - thr[t].moved_to_gallery
                        = IF thr[t].pc = "mv_op"
                          THEN Cardinality(lib \ lib') ELSE 0
                  /\ thr'[t].moved_back - thr[t].moved_back
                        = IF thr[t].pc = "ret_op"
                          THEN Cardinality(lib' \ lib) ELSE 0
            /\ (~Alive(t) /\ Alive(t)') =>
                  thr'[t].moved_to_gallery = 0 /\ thr'[t].moved_back = 0
            /\ (Alive(t) /\ status'.msg = "Switched") =>
                  status'.n = thr[t].moved_to_gallery
            /\ (Alive(t) /\ status'.msg = "Moved back" /\ status' # status) =>
                  status'.n = thr[t].moved_back
       /\ \A f \in viewed_photos' \ viewed_photos :
             f \in lib /\ f \notin lib' /\ f \in gal'
       /\ lib' # lib \/ gal' # gal => \E t \in Threads : InFileOp(t)]_vars

\* C20 witness: a switch of two photos is at the end of its move loop with
\* one photo moved, the rename of the other having failed
C20_Witness ==
    \E t \in Threads :
       /\ thr[t].pc = "mv_loop" /\ thr[t].selected = <<>>
       /\ thr[t].count = 2 /\ thr[t].moved_to_gallery = 1
       /\ moveFails = 1 /\ ~operation_cancelled
       /\ Cardinality(lib) = 2

\* a step of the worker of a clear operation
ClearStep(t) == thr[t].kind = "clear" /\ Worker(t)

C22_CleanFlagMeansSaved ==
    ~cache_dirty => date_cache \subseteq load_date_cache(cacheFile)

\* the photo filenames present in the library or in the gallery
AllPhotos == lib \cup gal

\* C23: no photo is lost.  No step of the program (switch, clear, history
\* reset, cancellation, a failed file operation) changes the set of filenames
\* present in library or gallery; a gallery file is deleted only while the
\* library holds a file of that name; and a file that leaves the library is
\* in the gallery afterwards.
C23_NoPhotoLost ==
    [][/\ AllPhotos' = AllPhotos
       /\ \A t \in Threads :
             \A f \in thr'[t].deleted_dupes \ thr[t].deleted_dupes :
                f \in gal /\ f \notin gal' /\ f \in lib /\ f \in lib'
       /\ \A f \in gal \ gal' : f \in lib'
       /\ \A f \in lib \ lib' : f \in gal']_vars

\* C23 witness: a run that was cancelled has deleted a duplicate from the
\* gallery and moved another photo back, and one file operation has failed
C23_Witness ==
    /\ operation_cancelled /\ moveFails > 0
    /\ \E t \in Threads :
          thr[t].deleted_dupes # {} /\ thr[t].moved_back > 0
    /\ AllPhotos = Files
====
